---- MODULE Spec2Model ----
(***************************************************************************)
(* voxterm: the Codex invocation / PTY fallback engine.                    *)
(*                                                                         *)
(*   src/codex_voice.py        _require, _run, _run_with_pty,              *)
(*                             _is_tty_error, call_codex_auto              *)
(*   src/scripts/run_in_pty.py _drain, run_with_pty (standalone relay)     *)
(*                                                                         *)
(* Texts (str and bytes) are sequences of symbols of a small alphabet;     *)
(* each symbol stands for a fixed run of characters, so concatenation,     *)
(* join, lower(), strip(), decode() and the substring test are computed on *)
(* the sequences.  Time is counted in polling slices (0.1 s in the code).  *)
(***************************************************************************)
EXTENDS Integers, Sequences, FiniteSets, TLC

(***************************************************************************)
(* Bounds.                                                                 *)
(***************************************************************************)
\* the configured timeout, in polling slices, when one is configured
TimeoutSlices == 1
\* how many times the child writes to its terminal in one PTY session
MaxChildWrites == 1
\* the standalone relay's time limit (300 s in the code), in polling slices
RelayLimitSlices == 1
\* how many writes of the parent the terminal's input queue holds while
\* nobody reads them
InputRoom == 1

(***************************************************************************)
(* Texts.                                                                  *)
(***************************************************************************)
NL == "\n"
SP == " "

\* the three needles of _is_tty_error, codex_voice.py:148
NeedleTerminal == <<"stdout", SP, "is", SP, "not", SP, "a", SP, "terminal">>
NeedleIsatty == <<"isatty">>
NeedleTty == <<"not", SP, "a", SP, "tty">>

\* str.lower(), symbol by symbol
LowerSym(s) ==
    CASE s = "Stdout" -> "stdout"
      [] s = "Not" -> "not"
      [] s = "TTY" -> "tty"
      [] OTHER -> s

Lower(t) == [i \in 1..Len(t) |-> LowerSym(t[i])]

\* needle in text (Python's substring test)
Contains(t, needle) ==
    \E i \in 0..(Len(t) - Len(needle)) : SubSeq(t, i + 1, i + Len(needle)) = needle

\* bytes.endswith / str.endswith
EndsWith(t, s) == Len(t) > 0 /\ t[Len(t)] = s

\* sep.join(parts)
RECURSIVE Join(_, _)
Join(parts, sep) ==
    IF Len(parts) = 0 THEN <<>>
    ELSE IF Len(parts) = 1 THEN parts[1]
    ELSE parts[1] \o sep \o Join(Tail(parts), sep)

\* bytes.decode("utf-8", errors="ignore"): undecodable bytes are dropped
Decode(b) == SelectSeq(b, LAMBDA s : s # "\\xff")

\* str.encode("utf-8") of a text without surrogates: the same symbols
Encode(t) == t

\* str.strip(): leading and trailing whitespace removed
RECURSIVE LStrip(_)
LStrip(t) == IF Len(t) > 0 /\ t[1] \in {SP, NL} THEN LStrip(Tail(t)) ELSE t

RECURSIVE RStrip(_)
RStrip(t) ==
    IF Len(t) > 0 /\ t[Len(t)] \in {SP, NL} THEN RStrip(SubSeq(t, 1, Len(t) - 1)) ELSE t

Strip(t) == LStrip(RStrip(t))

\* str(int) of an exit status
ToStr(n) ==
    CASE n = 0 -> "0"
      [] n = 1 -> "1"
      [] n = 2 -> "2"
      [] n = -9 -> "-9"
      [] n = -15 -> "-15"
      [] OTHER -> "?"

(***************************************************************************)
(* Inputs of one invocation.                                               *)
(***************************************************************************)
codex_cmd == <<"codex">>

\* the values of _EXTRA_CODEX_ARGS: lists of arguments
ExtraArgLists == { <<>>, << <<"--json">>, <<"-q">> >> }

Prompts == { <<"hello">>, <<"say", SP, "Not", SP, "a", SP, "TTY">> }

\* what the child prints on its output channel
StdoutTexts == { <<"hello", NL>>, <<"\\xff", "ok">> }

\* Popen.returncode: an exit code, or minus the number of the signal that
\* ended the child
ExitStatuses == {0, 2, -15}

\* the child of a direct attempt: whether it outlives the timeout, its exit
\* status, its output and its error text
DirectChildren ==
    [hangs : {FALSE}, rc : {0}, out : StdoutTexts, err : {<<>>}]
    \cup { [hangs |-> FALSE, rc |-> 1, out |-> <<>>,
            err |-> <<"Error: ", "Stdout", SP, "is", SP, "not", SP, "a", SP, "terminal", NL>>],
           [hangs |-> FALSE, rc |-> -15, out |-> <<"par">>, err |-> <<"boom", NL>>] }
    \cup [hangs : {TRUE}, rc : {-9}, out : {<<"par">>}, err : {<<>>}]

\* the child of a streaming attempt: its output goes to the parent's terminal
StreamChildren ==
    [hangs : {FALSE}, rc : {0}, out : {<<>>}, err : {<<>>}]
    \cup [hangs : {FALSE}, rc : {1}, out : {<<>>}, err : {<<SP, "boom", NL>>}]
    \cup [hangs : {TRUE}, rc : {-9}, out : {<<>>}, err : {<<>>}]

(***************************************************************************)
(* State.                                                                  *)
(***************************************************************************)
VARIABLES
    program,         \* which program runs: call_codex_auto or the standalone relay
    pc,              \* where call_codex_auto is
    prompt,          \* its argument
    timeout,         \* its argument: <<>> (None) or <<slices>>
    _EXTRA_CODEX_ARGS, \* the module's global, codex_voice.py:24
    extra_args,      \* the call's copy of it, codex_voice.py:230
    onPath,          \* whether shutil.which finds codex_cmd
    stdoutTty,       \* sys.stdout.isatty()
    isWindows,       \* platform.system() == "Windows"
    error_messages,  \* codex_voice.py:227
    result,          \* what the program returned or raised
    attempts,        \* history: every attempt started, with its outcome
    earlier,         \* history: the invocation before this one
    spawned,         \* history: children spawned
    ptyAllocs,       \* history: pseudo-terminals allocated
    ptyPc,           \* where the PTY session is
    master_fd,       \* the parent's master descriptor: none, open, closed
    slave_fd,        \* the parent's slave descriptor
    masterCloses,    \* history: os.close(master_fd) calls of the session
    slaveCloses,     \* history: os.close(slave_fd) calls of the session
    proc,            \* the session's child: none, running, zombie, reaped
    childStatus,     \* the status the child ended with
    returncode,      \* proc.returncode / exit_code: <<>> (None) until observed
    pending,         \* bytes the child wrote that the parent has not read
    childWrites,     \* how often the child has written
    written,         \* history: the bytes the child has written, in order
    out,             \* the session's output buffer
    masterWritten,   \* history: what the parent wrote to the master
    ttyIn,           \* writes of the parent waiting in the terminal's input queue
    elapsed          \* slices since the relay loop started

plannerVars == <<pc, error_messages, result, attempts>>
inputVars == <<program, prompt, timeout, _EXTRA_CODEX_ARGS, onPath, stdoutTty, isWindows,
               earlier>>
fdVars == <<master_fd, slave_fd, masterCloses, slaveCloses>>
\* what a session forgets when it is over
localVars == <<childStatus, pending, childWrites, written, returncode, out, masterWritten, ttyIn,
               elapsed>>

vars == <<program, pc, prompt, timeout, _EXTRA_CODEX_ARGS, extra_args, onPath, stdoutTty,
          isWindows, error_messages, result, attempts, earlier, spawned, ptyAllocs, ptyPc,
          master_fd, slave_fd,
          masterCloses, slaveCloses, proc, childStatus, returncode, pending,
          childWrites, written, out, masterWritten, ttyIn, elapsed>>

NoResult == [kind |-> "none", text |-> <<>>]

(***************************************************************************)
(* _require, codex_voice.py:26-33.                                         *)
(***************************************************************************)
\* mutant: the PATH check is skipped
_require_NoCheck(cmd, found) == [raised |-> FALSE, msg |-> <<>>]

_require(cmd, found) ==
    IF ~found
    THEN [raised |-> TRUE, msg |-> <<"Command not found on PATH: ">> \o cmd]
    ELSE [raised |-> FALSE, msg |-> <<>>]

(***************************************************************************)
(* _run, codex_voice.py:35-60: what it returns or raises for a child.      *)
(***************************************************************************)
\* an outcome: a return value, or an exception with its class and its str()
Raised(type, msg) == [ok |-> FALSE, out |-> <<>>, type |-> type, msg |-> msg]
Returned(o) == [ok |-> TRUE, out |-> o, type |-> "", msg |-> <<>>]

\* an outcome, with whether the child was waited for when the call was left
Waited(w, r) == [waited |-> w] @@ r

\* whether communicate(timeout=...) ever comes back
_run_returns(tmo, child) == tmo # <<>> \/ ~child.hangs

\* mutant: the exit status is not looked at
_run_IgnoresExit(argv, tmo, child) ==
    Waited(TRUE,
     IF child.hangs
     THEN Raised("RuntimeError", <<"Timeout running: ">> \o Join(argv, <<SP>>) \o <<NL>>
                 \o Decode(child.err))
       ELSE Returned(child.out))

\* the outcome, and whether the child was waited for: communicate() returns
\* when the child has been reaped, also the one after p.kill()
_run(argv, tmo, child) ==
    Waited(TRUE,
           IF child.hangs
           THEN Raised("RuntimeError", <<"Timeout running: ">> \o Join(argv, <<SP>>)
                       \o <<NL>> \o Decode(child.err))
           ELSE IF child.rc # 0
           THEN Raised("RuntimeError", <<"Nonzero exit ", ToStr(child.rc), ": ">>
                       \o Join(argv, <<SP>>) \o <<NL>> \o Decode(child.err))
           ELSE Returned(child.out))

(***************************************************************************)
(* _is_tty_error, codex_voice.py:145-148.                                  *)
(***************************************************************************)
\* mutant: the message is not lower-cased before the search
_is_tty_error_CaseSensitive(error) ==
    Contains(error, NeedleTerminal) \/ Contains(error, NeedleIsatty)
    \/ Contains(error, NeedleTty)

_is_tty_error(error) ==
    LET msg == Lower(error)
    IN  Contains(msg, NeedleTerminal) \/ Contains(msg, NeedleIsatty)
        \/ Contains(msg, NeedleTty)

(***************************************************************************)
(* call_codex_auto, codex_voice.py:211-286.                                *)
(***************************************************************************)
\* mutant: the extra arguments are put after the prompt
ArgvOf_ExtraArgsLast(mode) ==
    IF mode = "Arg" THEN <<codex_cmd, prompt>> \o extra_args
    ELSE <<codex_cmd>> \o extra_args

\* mutant: the list of extra arguments grows from one invocation to the next
ArgvOf_Grows(mode) ==
    IF mode = "Arg"
    THEN <<codex_cmd>> \o extra_args \o (IF earlier # <<>> THEN extra_args ELSE <<>>)
             \o <<prompt>>
    ELSE <<codex_cmd>> \o extra_args \o (IF earlier # <<>> THEN extra_args ELSE <<>>)

\* the two capturing attempts, codex_voice.py:267-270
ArgvOf(mode) ==
    IF mode = "Arg" THEN <<codex_cmd>> \o extra_args \o <<prompt>>
    ELSE <<codex_cmd>> \o extra_args

\* the input_bytes of a capturing attempt: None is <<>>
InputOf(mode) == IF mode = "Arg" THEN <<>> ELSE Encode(prompt)

ModeOf(p) == IF p \in {"FastArg", "ArgDirect", "ArgPty"} THEN "Arg" ELSE "Stdin"

\* the child of a Pty attempt is not chosen at once: it acts step by step
NoChild == [hangs |-> FALSE, rc |-> 0, out |-> <<>>, err |-> <<>>]

\* an entry of the history: the attempt, how it ended (running, ok, failed),
\* the bytes it returned, the str() of what it raised, the child it was given
\* and whether that child was waited for
Attempt(mode, channel, status, o, diag, child, waited) ==
    [mode |-> mode, channel |-> channel, status |-> status, out |-> o,
     diag |-> diag, argv |-> ArgvOf(mode), child |-> child, waited |-> waited]

\* the last entry of the history, finished
Finish(log, status, o, diag, waited) ==
    [log EXCEPT ![Len(log)].status = status, ![Len(log)].out = o,
                ![Len(log)].diag = diag, ![Len(log)].waited = waited]

\* mutant: the decoded text is kept but the loop goes on instead of returning
ReturnText_Continue(o) ==
    /\ pc' = (IF ModeOf(pc) = "Arg" THEN "StdinDirect" ELSE "Succeeded")
    /\ result' = [kind |-> "text", text |-> Decode(o)]

\* mutant: the decoded text is stripped before it is returned
ReturnText_Stripped(o) ==
    /\ pc' = "Succeeded"
    /\ result' = [kind |-> "text", text |-> Strip(Decode(o))]

\* codex_voice.py:275 and 281
ReturnText(o) ==
    /\ pc' = "Succeeded"
    /\ result' = [kind |-> "text", text |-> Decode(o)]

\* codex_voice.py:276: except RuntimeError
DirectCatches(r) == r.type = "RuntimeError"

\* mutant: the PTY handler catches RuntimeError only, like the direct handler
PtyCatches_RuntimeErrorOnly(r) == r.type = "RuntimeError"

\* codex_voice.py:282: except Exception
PtyCatches(r) == r.type \in {"RuntimeError", "OSError"}

\* an exception no handler of call_codex_auto catches reaches its caller
Propagate(r) ==
    /\ pc' = "Propagated"
    /\ result' = [kind |-> "raise", text |-> r.msg]

\* mutant: only the last diagnostic is reported
Aggregate_LastOnly(msgs) ==
    <<"Codex invocation failed:", NL>> \o msgs[Len(msgs)]

\* codex_voice.py:285-286
Aggregate(msgs) ==
    <<"Codex invocation failed:", NL>> \o Join(msgs, <<NL, "---", NL>>)

\* mutant: the loop does not move on, the mode's direct attempt is run again
Advance_SameMode(mode, msgs) ==
    /\ error_messages' = msgs
    /\ pc' = (IF mode = "Arg" THEN "ArgDirect" ELSE "StdinDirect") /\ result' = result

\* the for loop moves on: the next mode's direct attempt, or the aggregate failure
Advance(mode, msgs) ==
    /\ error_messages' = msgs
    /\ IF mode = "Arg"
       THEN pc' = "StdinDirect" /\ result' = result
       ELSE pc' = "ExhaustedFailed"
            /\ result' = [kind |-> "raise", text |-> Aggregate(msgs)]

\* mutant: every failure of a direct attempt is retried in a PTY
WantsPty_AnyFailure(msg) == ~isWindows

\* mutant: the platform is not looked at
WantsPty_NoPlatformCheck(msg) == _is_tty_error(msg)

\* codex_voice.py:278
WantsPty(msg) == _is_tty_error(msg) /\ ~isWindows

\* the locals of _run_with_pty (and of the model's child) as they are outside a session
Forget ==
    /\ childStatus' = 0 /\ pending' = <<>> /\ childWrites' = 0 /\ written' = <<>>
    /\ returncode' = <<>> /\ out' = <<>> /\ masterWritten' = <<>> /\ ttyIn' = 0
    /\ elapsed' = 0

\* a new PTY session: nothing allocated, nothing spawned
NewSession ==
    /\ ptyPc' = "start"
    /\ master_fd' = "none" /\ slave_fd' = "none"
    /\ masterCloses' = 0 /\ slaveCloses' = 0
    /\ proc' = "none"
    /\ Forget

sessionVars == <<ptyPc, fdVars, proc, localVars>>

\* the child is deterministic: started again in the same way by a second
\* invocation, it does what it did in the first
SameChild(channel, mode, child) ==
    \A k \in 1..Len(earlier) : \A i \in 1..Len(earlier[k].attempts) :
        LET a == earlier[k].attempts[i]
        IN  (a.channel = channel /\ a.mode = mode) => a.child = child

\* codex_voice.py:225-232
Require ==
    /\ program = "planner" /\ pc = "NotStarted"
    /\ LET r == _require(codex_cmd, onPath)
       IN  IF r.raised
           THEN pc' = "CommandNotFound" /\ result' = [kind |-> "raise", text |-> r.msg]
           ELSE pc' = (IF stdoutTty THEN "FastArg" ELSE "ArgDirect") /\ result' = result
    /\ error_messages' = <<>>
    /\ extra_args' = _EXTRA_CODEX_ARGS
    /\ UNCHANGED <<inputVars, attempts, spawned, ptyAllocs, sessionVars>>

\* mutant: the child's stderr is left out of the diagnostic
FastMsg_NoStderr(mode, rc, err) ==
    <<(IF mode = "Arg" THEN "Arg mode exit " ELSE "Stdin mode exit "), ToStr(rc), ": ">>
    \o Join(ArgvOf(mode), <<SP>>) \o <<NL>>

\* codex_voice.py:237-249 and 251-265: the child streams to the parent's terminal
FastMsg(mode, rc, err) ==
    <<(IF mode = "Arg" THEN "Arg mode exit " ELSE "Stdin mode exit "), ToStr(rc), ": ">>
    \o Join(ArgvOf(mode), <<SP>>) \o <<NL>> \o Strip(err)

FastPath(child) ==
    /\ program = "planner" /\ pc \in {"FastArg", "FastStdin"}
    /\ ~child.hangs
    /\ SameChild("Stream", ModeOf(pc), child)
    /\ spawned' = spawned + 1
    /\ LET mode == ModeOf(pc)
       IN  IF child.rc = 0
           THEN /\ pc' = "Succeeded"
                /\ result' = [kind |-> "None", text |-> <<>>]
                /\ attempts' = Append(attempts, Attempt(mode, "Stream", "ok", <<>>, <<>>,
                                                        child, TRUE))
                /\ UNCHANGED error_messages
           ELSE LET msg == FastMsg(mode, child.rc, child.err)
                IN  /\ pc' = (IF mode = "Arg" THEN "FastStdin" ELSE "ArgDirect")
                    /\ error_messages' = Append(error_messages, msg)
                    /\ attempts' = Append(attempts, Attempt(mode, "Stream", "failed",
                                                            <<>>, msg, child, TRUE))
                    /\ UNCHANGED result
    /\ UNCHANGED <<inputVars, extra_args, ptyAllocs, sessionVars>>

\* codex_voice.py:238-244 and 253-260: subprocess.run is called without a
\* timeout, so with a child that never exits it never returns
FastPathBlocked(child) ==
    /\ program = "planner" /\ pc \in {"FastArg", "FastStdin"}
    /\ child.hangs
    /\ SameChild("Stream", ModeOf(pc), child)
    /\ spawned' = spawned + 1
    /\ pc' = "FastBlocked"
    /\ attempts' = Append(attempts, Attempt(ModeOf(pc), "Stream", "running", <<>>, <<>>,
                                            child, FALSE))
    /\ UNCHANGED <<inputVars, extra_args, error_messages, result, ptyAllocs, sessionVars>>

\* codex_voice.py:272-280: one direct attempt and what the loop does with it
Direct(child) ==
    /\ program = "planner" /\ pc \in {"ArgDirect", "StdinDirect"}
    /\ _run_returns(timeout, child)
    /\ SameChild("Direct", ModeOf(pc), child)
    /\ spawned' = spawned + 1
    /\ LET mode == ModeOf(pc)
           r == _run(ArgvOf(mode), timeout, child)
       IN  IF r.ok
           THEN /\ ReturnText(r.out)
                /\ attempts' = Append(attempts, Attempt(mode, "Direct", "ok", r.out, <<>>,
                                                        child, r.waited))
                /\ UNCHANGED <<error_messages, sessionVars>>
           ELSE LET msgs == Append(error_messages, r.msg)
                    log == Append(attempts, Attempt(mode, "Direct", "failed", <<>>, r.msg,
                                                    child, r.waited))
                IN  IF ~DirectCatches(r)
                    THEN /\ Propagate(r)
                         /\ attempts' = log
                         /\ UNCHANGED <<error_messages, sessionVars>>
                    ELSE IF WantsPty(r.msg)
                    THEN /\ pc' = (IF mode = "Arg" THEN "ArgPty" ELSE "StdinPty")
                         /\ error_messages' = msgs
                         /\ attempts' = Append(log, Attempt(mode, "Pty", "running",
                                                             <<>>, <<>>, NoChild, FALSE))
                         /\ NewSession
                         /\ UNCHANGED result
                    ELSE /\ Advance(mode, msgs)
                         /\ attempts' = log
                         /\ UNCHANGED sessionVars
    /\ UNCHANGED <<inputVars, extra_args, ptyAllocs>>

\* codex_voice.py:280-283: what the loop does with the PTY attempt's outcome
AfterPty(r) ==
    IF r.ok
    THEN /\ ReturnText(r.out)
         /\ attempts' = Finish(attempts, "ok", r.out, <<>>, r.waited)
         /\ UNCHANGED error_messages
    ELSE IF ~PtyCatches(r)
    THEN /\ Propagate(r)
         /\ attempts' = Finish(attempts, "failed", <<>>, r.msg, r.waited)
         /\ UNCHANGED error_messages
    ELSE /\ Advance(ModeOf(pc), Append(error_messages, <<"PTY fallback failed: ">> \o r.msg))
         /\ attempts' = Finish(attempts, "failed", <<>>, r.msg, r.waited)

\* finalize_pipeline, codex_voice.py:411: the caller sends the same request
\* again (looked at once, after an invocation that a Direct attempt ended and
\* whose Pty attempts, if it made any, ran into their deadline)
Reinvoke ==
    /\ program = "planner" /\ pc = "Succeeded" /\ earlier = <<>>
    /\ attempts[Len(attempts)].channel = "Direct"
    /\ \A i \in 1..Len(attempts) :
           attempts[i].channel = "Pty" => attempts[i].diag[1] = "Timeout running (PTY): "
    /\ earlier' = <<[attempts |-> attempts, result |-> result, ptyAllocs |-> ptyAllocs]>>
    /\ pc' = "NotStarted"
    /\ result' = NoResult
    /\ attempts' = <<>> /\ spawned' = 0 /\ ptyAllocs' = 0
    /\ error_messages' = <<>> /\ extra_args' = <<>>
    /\ UNCHANGED <<program, prompt, timeout, _EXTRA_CODEX_ARGS, onPath, stdoutTty,
                   isWindows, sessionVars>>

(***************************************************************************)
(* The child of a PTY session and the bytes between the two sides.         *)
(***************************************************************************)
CursorQuery == <<"ESC[", "6n">>
cursor_report == <<"ESC[", "1;1R">>

CR == "\r"

\* the child's stdin, stdout and stderr are the slave side: Popen is given
\* slave_fd three times at codex_voice.py:76; the forked child of
\* run_in_pty.py:56-62 closes the master and calls execvp, nothing puts the
\* slave on its descriptors 0, 1 and 2 (and os.openpty's descriptors are
\* close-on-exec), so its output goes wherever the relay's own goes
OnSlave == program = "planner"

\* the terminal's output processing (ONLCR): a newline leaves the master
\* side as carriage return, newline
RECURSIVE ONLCR(_)
ONLCR(t) ==
    IF t = <<>> THEN <<>>
    ELSE (IF t[1] = NL THEN <<CR, NL>> ELSE <<t[1]>>) \o ONLCR(Tail(t))

\* the terminal echoes what is written to the master side (ECHO, ECHOCTL):
\* the escape character is echoed as ^[.  The echo is all the standalone
\* relay ever reads, and nothing can turn it off there.  In a session of
\* _run_with_pty it depends on the mode the child puts its terminal in and
\* only adds bytes between those of the child; the sessions below are those
\* of a child that has turned it off
RECURSIVE Echo(_)
Echo(t) ==
    IF t = <<>> THEN <<>>
    ELSE (IF t[1] = NL THEN <<CR, NL>>
          ELSE IF t[1] = "ESC[" THEN <<"^[[">>
          ELSE <<t[1]>>) \o Echo(Tail(t))

\* what the child may write to its terminal at once
ChildTexts == { <<"hi">>, CursorQuery }

\* the longest text the child can have pending
MaxPending == 2 * (MaxChildWrites + 1)

\* bytes.replace(needle, b""): one pass, left to right
RECURSIVE Replace(_, _)
Replace(t, needle) ==
    IF Len(t) < Len(needle) THEN t
    ELSE IF SubSeq(t, 1, Len(needle)) = needle
    THEN Replace(SubSeq(t, Len(needle) + 1, Len(t)), needle)
    ELSE <<t[1]>> \o Replace(Tail(t), needle)

\* codex_voice.py:120-124 and run_in_pty.py:39-43: whether the report is
\* written, and what is kept of the chunk
Intercept(chunk) ==
    IF Contains(chunk, CursorQuery)
    THEN [reply |-> TRUE, kept |-> Replace(chunk, CursorQuery)]
    ELSE [reply |-> FALSE, kept |-> chunk]

\* the parent is in its relay loop: what the child does before that, the parent
\* sees no earlier than at its first select
InRelay ==
    ptyPc \in {"loop", "select", "read", "reply", "poll", "drain", "reply_drain",
               "sa_drain", "sa_wait"}

ChildWrite(text) ==
    /\ InRelay /\ proc = "running" /\ childWrites < MaxChildWrites
    /\ written' = written \o text
    /\ pending' = (IF OnSlave THEN pending \o ONLCR(text) ELSE pending)
    /\ childWrites' = childWrites + 1
    /\ UNCHANGED <<inputVars, extra_args, plannerVars, spawned, ptyAllocs, ptyPc, fdVars, proc,
                   childStatus, returncode, out, masterWritten, ttyIn, elapsed>>

\* the child ends on its own
ChildExit(st) ==
    /\ InRelay /\ proc = "running"
    /\ proc' = "zombie" /\ childStatus' = st
    /\ UNCHANGED <<inputVars, extra_args, plannerVars, spawned, ptyAllocs, ptyPc, fdVars, pending,
                   childWrites, written, returncode, out, masterWritten, ttyIn, elapsed>>

\* the parent is in os.write(master_fd, cursor_report)
InReply == ptyPc \in {"reply", "reply_drain"}

\* the terminal's input queue empties: the child read its input, or a line
\* discipline in canonical mode dropped what did not fit.  Only a write of the
\* parent observes the queue, so the step is taken while the parent writes
TtyDrain ==
    /\ InReply /\ ttyIn > 0
    /\ ttyIn' = 0
    /\ UNCHANGED <<inputVars, extra_args, plannerVars, spawned, ptyAllocs, ptyPc, fdVars, proc,
                   childStatus, returncode, pending, childWrites, written, out, masterWritten,
                   elapsed>>

\* os.write(master_fd, ...) returns once the input queue has room; until then
\* the writer is blocked in the call
WriteRoom == ttyIn < InputRoom

\* select.select([master_fd], ...): data to read, or the slave side hung up
\* (no process holds it once the child is gone, or from the start when the
\* child was never given it)
Readable == pending # <<>> \/ proc # "running" \/ ~OnSlave

\* the clock a session reads, in slices: time.monotonic() - start at
\* codex_voice.py:106 (read only when a timeout is configured) and at
\* run_in_pty.py:83; past the limit it makes no difference any more
ClockLimit ==
    IF program = "relay" THEN RelayLimitSlices + 1
    ELSE IF timeout # <<>> THEN timeout[1]
    ELSE 0

\* time passes while the parent reads, writes and polls, not only while it
\* waits in select.  The clock is read at the head of the loop (at the waitpid
\* of the relay), so the step is taken there
Tick ==
    /\ ptyPc \in {"loop", "sa_wait"}
    /\ elapsed < ClockLimit
    /\ elapsed' = elapsed + 1
    /\ UNCHANGED <<inputVars, extra_args, plannerVars, spawned, ptyAllocs, ptyPc, fdVars, proc,
                   childStatus, returncode, pending, childWrites, written, out, masterWritten,
                   ttyIn>>

(***************************************************************************)
(* _run_with_pty, codex_voice.py:62-143.                                   *)
(***************************************************************************)
\* the finally block, codex_voice.py:138-139
Finally == master_fd' = "closed" /\ masterCloses' = masterCloses + 1

\* _run_with_pty is left, by return or by raise: its caller goes on
Leave(r) ==
    /\ ptyPc' = "idle"
    /\ Forget
    /\ AfterPty(r)

\* mutant: only a positive exit code is a failure, death by a signal is not
PtyOutcome_SignalIsSuccess(rc, argv, o) ==
    IF rc > 0
    THEN Raised("RuntimeError", <<"Nonzero exit ", ToStr(rc), " (PTY): ">>
                \o Join(argv, <<SP>>) \o <<NL>> \o Decode(o))
    ELSE Returned(o)

\* codex_voice.py:141-143
PtyOutcome(rc, argv, o) ==
    IF rc # 0
    THEN Raised("RuntimeError", <<"Nonzero exit ", ToStr(rc), " (PTY): ">>
                \o Join(argv, <<SP>>) \o <<NL>> \o Decode(o))
    ELSE Returned(o)

\* mutant: the payload is written as it was given
Payload_AsGiven(input) == input

\* mutant: a newline is appended to every payload
Payload_AlwaysAppends(input) == input \o <<NL>>

\* codex_voice.py:87-89, run_in_pty.py:110-111
Payload(input) == IF EndsWith(input, NL) THEN input ELSE input \o <<NL>>

\* codex_voice.py:69-72
PtyOpen(fails) ==
    /\ program = "planner" /\ ptyPc = "start"
    /\ IF isWindows
       THEN /\ Leave(Waited(FALSE, Raised("RuntimeError",
                                       <<"PTY fallback is not supported on Windows">>)))
            /\ UNCHANGED <<master_fd, slave_fd, ptyAllocs>>
       ELSE IF fails
       THEN /\ Leave(Waited(FALSE, Raised("OSError", <<"out of pty devices">>)))
            /\ UNCHANGED <<master_fd, slave_fd, ptyAllocs>>
       ELSE /\ ptyPc' = "spawn"
            /\ master_fd' = "open" /\ slave_fd' = "open"
            /\ ptyAllocs' = ptyAllocs + 1
            /\ UNCHANGED <<plannerVars, localVars>>
    /\ UNCHANGED <<inputVars, extra_args, spawned, masterCloses, slaveCloses, proc>>

\* codex_voice.py:74-84
PtySpawn(fails) ==
    /\ program = "planner" /\ ptyPc = "spawn"
    /\ IF fails
       THEN /\ master_fd' = "closed" /\ masterCloses' = masterCloses + 1
            /\ slave_fd' = "closed" /\ slaveCloses' = slaveCloses + 1
            /\ Leave(Waited(FALSE, Raised("OSError", <<"exec failed">>)))
            /\ UNCHANGED <<proc, spawned>>
       ELSE /\ ptyPc' = "write"
            /\ proc' = "running" /\ spawned' = spawned + 1
            /\ slave_fd' = "closed" /\ slaveCloses' = slaveCloses + 1
            /\ UNCHANGED <<master_fd, masterCloses, plannerVars, localVars>>
    /\ UNCHANGED <<inputVars, extra_args, ptyAllocs>>

\* codex_voice.py:86-93
PtyWritePayload(fails) ==
    /\ program = "planner" /\ ptyPc = "write"
    /\ LET input == InputOf(ModeOf(pc))
       IN  IF input # <<>> /\ fails
           THEN Leave(Waited(FALSE, Raised("OSError", <<"write failed">>)))
           ELSE /\ input # <<>> => WriteRoom
                /\ ptyPc' = "loop"
                /\ masterWritten' = (IF input # <<>>
                                     THEN Append(masterWritten, Payload(input))
                                     ELSE masterWritten)
                /\ ttyIn' = (IF input # <<>> THEN ttyIn + 1 ELSE ttyIn)
                /\ out' = <<>> /\ elapsed' = 0
                /\ UNCHANGED <<plannerVars, childStatus, pending, childWrites, written, returncode>>
    /\ UNCHANGED <<inputVars, extra_args, spawned, ptyAllocs, fdVars, proc>>

\* codex_voice.py:104-114
PtyDeadline ==
    /\ program = "planner" /\ ptyPc = "loop"
    /\ IF timeout # <<>> /\ timeout[1] - elapsed <= 0
       THEN /\ proc' = "reaped"
            /\ Finally
            /\ Leave(Waited(TRUE, Raised("RuntimeError", <<"Timeout running (PTY): ">>
                                         \o Join(ArgvOf(ModeOf(pc)), <<SP>>))))
       ELSE /\ ptyPc' = "select"
            /\ UNCHANGED <<proc, master_fd, masterCloses, plannerVars, localVars>>
    /\ UNCHANGED <<inputVars, extra_args, spawned, ptyAllocs, slave_fd, slaveCloses>>

\* codex_voice.py:116-117
PtySelect ==
    /\ program = "planner" /\ ptyPc = "select"
    /\ IF Readable
       THEN ptyPc' = "read" /\ UNCHANGED elapsed
       ELSE /\ ptyPc' = "poll"
            /\ elapsed' = (IF elapsed < ClockLimit THEN elapsed + 1 ELSE elapsed)
    /\ UNCHANGED <<inputVars, extra_args, plannerVars, spawned, ptyAllocs, fdVars, proc, childStatus,
                   pending, childWrites, written, returncode, out, masterWritten, ttyIn>>

\* an OSError leaves the relay loop through the finally block
LoopError(msg) ==
    /\ Finally
    /\ Leave(Waited(proc = "reaped", Raised("OSError", msg)))

\* mutant: the read that finds the slave side closed raises like any other
PtyDone_EioRaises(rc) ==
    /\ Finally
    /\ Leave(Waited(TRUE, Raised("OSError", <<"Input/output error">>)))

\* the loop is left by break, after a read that returned nothing (on a
\* pseudo-terminal whose slave side is closed that read is the one failing
\* with EIO, which _read_chunk turns into b""): the finally block, then
\* codex_voice.py:141-143
PtyDone(rc) ==
    /\ Finally
    /\ Leave(Waited(TRUE, PtyOutcome(rc, ArgvOf(ModeOf(pc)), out)))

\* codex_voice.py:119-124 and 132-136: a chunk was read.  What is kept of it
\* is appended here, ahead of the write of the report: out is a local that
\* nothing reads in between, and it is dropped when the write raises
PtyChunk(n, after) ==
    LET chunk == SubSeq(pending, 1, n)
        i == Intercept(chunk)
    IN  /\ pending' = SubSeq(pending, n + 1, Len(pending))
        /\ out' = out \o i.kept
        /\ ptyPc' = (IF ~i.reply THEN after
                     ELSE IF after = "poll" THEN "reply" ELSE "reply_drain")
        /\ UNCHANGED <<master_fd, masterCloses, plannerVars, childStatus,
                       childWrites, written, returncode, masterWritten, ttyIn, elapsed>>

\* codex_voice.py:117-126, with _read_chunk, 95-101; the os.read may fail with
\* an error other than EIO
PtyRead(n, fails) ==
    /\ program = "planner" /\ ptyPc = "read"
    /\ IF fails
       THEN n = 0 /\ LoopError(<<"read failed">>) /\ UNCHANGED proc
       ELSE IF pending # <<>>
       THEN n \in 1..Len(pending) /\ PtyChunk(n, "poll") /\ UNCHANGED proc
       ELSE /\ n = 0
            /\ IF proc = "running"
               THEN /\ ptyPc' = "poll"
                    /\ UNCHANGED <<proc, master_fd, masterCloses, plannerVars, localVars>>
               ELSE /\ proc' = "reaped"
                    /\ PtyDone(childStatus)
    /\ UNCHANGED <<inputVars, extra_args, spawned, ptyAllocs, slave_fd, slaveCloses>>

\* codex_voice.py:122 and 134: os.write(master_fd, cursor_report)
PtyReply(fails) ==
    /\ program = "planner" /\ ptyPc \in {"reply", "reply_drain"}
    /\ IF fails
       THEN LoopError(<<"write failed">>)
       ELSE /\ WriteRoom
            /\ masterWritten' = Append(masterWritten, cursor_report)
            /\ ttyIn' = ttyIn + 1
            /\ ptyPc' = (IF ptyPc = "reply" THEN "poll" ELSE "drain")
            /\ UNCHANGED <<master_fd, masterCloses, plannerVars, childStatus, pending,
                           childWrites, written, returncode, out, elapsed>>
    /\ UNCHANGED <<inputVars, extra_args, spawned, ptyAllocs, slave_fd, slaveCloses, proc>>

\* codex_voice.py:127
PtyPoll ==
    /\ program = "planner" /\ ptyPc = "poll"
    /\ IF proc = "running"
       THEN ptyPc' = "loop" /\ UNCHANGED <<proc, returncode>>
       ELSE ptyPc' = "drain" /\ proc' = "reaped" /\ returncode' = <<childStatus>>
    /\ UNCHANGED <<inputVars, extra_args, plannerVars, spawned, ptyAllocs, fdVars, childStatus,
                   pending, childWrites, written, out, masterWritten, ttyIn, elapsed>>

\* codex_voice.py:128-137
PtyDrain(n, fails) ==
    /\ program = "planner" /\ ptyPc = "drain"
    /\ IF fails
       THEN n = 0 /\ LoopError(<<"read failed">>)
       ELSE IF pending # <<>>
       THEN n \in 1..Len(pending) /\ PtyChunk(n, "drain")
       ELSE n = 0 /\ PtyDone(returncode[1])
    /\ UNCHANGED <<inputVars, extra_args, spawned, ptyAllocs, slave_fd, slaveCloses, proc>>

(***************************************************************************)
(* The standalone relay, scripts/run_in_pty.py.  Its stdin_data is the     *)
(* model's prompt: what main read from its standard input, <<>> without    *)
(* --stdin.                                                                *)
(***************************************************************************)
\* run_in_pty.py:107-111
stdin_data == IF prompt = <<>> THEN <<>> ELSE Payload(prompt)

\* the relay raises: nothing more is closed, waited for or written
RelayRaise(msg) ==
    /\ ptyPc' = "idle"
    /\ pc' = "RelayFailed"
    /\ result' = [kind |-> "raise", text |-> msg]
    /\ UNCHANGED <<error_messages, attempts>>

\* run_in_pty.py:48
RelayOpen(fails) ==
    /\ program = "relay" /\ ptyPc = "sa_open"
    /\ IF fails
       THEN /\ RelayRaise(<<"out of pty devices">>)
            /\ UNCHANGED <<master_fd, slave_fd, ptyAllocs>>
       ELSE /\ ptyPc' = "sa_fork"
            /\ master_fd' = "open" /\ slave_fd' = "open"
            /\ ptyAllocs' = ptyAllocs + 1
            /\ UNCHANGED plannerVars
    /\ UNCHANGED <<inputVars, extra_args, spawned, masterCloses, slaveCloses, proc, localVars>>

\* run_in_pty.py:49-65
RelayFork(fails) ==
    /\ program = "relay" /\ ptyPc = "sa_fork"
    /\ IF fails
       THEN /\ master_fd' = "closed" /\ masterCloses' = masterCloses + 1
            /\ slave_fd' = "closed" /\ slaveCloses' = slaveCloses + 1
            /\ RelayRaise(<<"fork failed">>)
            /\ UNCHANGED <<proc, spawned>>
       ELSE /\ ptyPc' = "sa_write"
            /\ proc' = "running" /\ spawned' = spawned + 1
            /\ slave_fd' = "closed" /\ slaveCloses' = slaveCloses + 1
            /\ UNCHANGED <<master_fd, masterCloses, plannerVars>>
    /\ UNCHANGED <<inputVars, extra_args, ptyAllocs, localVars>>

\* run_in_pty.py:67-72
RelayWritePayload(fails) ==
    /\ program = "relay" /\ ptyPc = "sa_write"
    /\ IF stdin_data # <<>> /\ fails
       THEN RelayRaise(<<"write failed">>) /\ UNCHANGED localVars
       ELSE /\ stdin_data # <<>> => WriteRoom
            /\ ptyPc' = "sa_drain"
            /\ masterWritten' = (IF stdin_data # <<>>
                                 THEN Append(masterWritten, stdin_data)
                                 ELSE masterWritten)
            /\ ttyIn' = (IF stdin_data # <<>> THEN ttyIn + 1 ELSE ttyIn)
            /\ pending' = pending \o Echo(stdin_data)
            /\ out' = <<>> /\ returncode' = <<>> /\ elapsed' = 0
            /\ UNCHANGED <<plannerVars, childStatus, childWrites, written>>
    /\ UNCHANGED <<inputVars, extra_args, spawned, ptyAllocs, fdVars, proc>>

\* run_in_pty.py:92-95
RelayReturn ==
    /\ master_fd' = "closed" /\ masterCloses' = masterCloses + 1
    /\ ptyPc' = "idle"
    /\ pc' = "RelayExited"
    /\ result' = [kind |-> "exit", text |-> out]
    /\ UNCHANGED <<error_messages, attempts>>

\* _drain, run_in_pty.py:21-44, called at 75 and at 91: one turn of its loop
\* (the bytes it returns are appended at once, in the order read; the os.read
\* may fail with an error other than EIO).  The terminal stays in the mode it
\* was opened in, canonical with echo, in which a write to the master does
\* not wait: the write of the report at line 41 is part of the turn
RelayDrain(n, fails) ==
    /\ program = "relay" /\ ptyPc \in {"sa_drain", "sa_final"}
    /\ IF Readable /\ fails
       THEN n = 0 /\ RelayRaise(<<"read failed">>) /\ UNCHANGED <<fdVars, localVars>>
       ELSE IF Readable /\ pending # <<>>
       THEN /\ n \in 1..Len(pending)
            /\ LET chunk == SubSeq(pending, 1, n)
                   i == Intercept(chunk)
               IN  /\ pending' = SubSeq(pending, n + 1, Len(pending))
                                  \o (IF i.reply THEN Echo(cursor_report) ELSE <<>>)
                   /\ masterWritten' = (IF i.reply THEN Append(masterWritten, cursor_report)
                                        ELSE masterWritten)
                   /\ out' = out \o i.kept
            /\ UNCHANGED <<plannerVars, fdVars, ptyPc, childStatus, childWrites, written,
                           returncode, ttyIn, elapsed>>
       ELSE /\ n = 0 /\ ~fails
            /\ elapsed' = (IF ~Readable /\ elapsed < ClockLimit
                           THEN elapsed + 1 ELSE elapsed)
            /\ IF ptyPc = "sa_drain"
               THEN ptyPc' = "sa_wait" /\ UNCHANGED <<plannerVars, fdVars>>
               ELSE RelayReturn /\ UNCHANGED <<slave_fd, slaveCloses>>
            /\ UNCHANGED <<childStatus, pending, childWrites, written, returncode, out,
                           masterWritten, ttyIn>>
    /\ UNCHANGED <<inputVars, extra_args, spawned, ptyAllocs, proc>>

\* mutant: every child that did not exit with 0 is reported as 1
ExitCodeOf_AnyFailure(st) == IF st = 0 THEN 0 ELSE 1

\* os.WIFEXITED / os.WEXITSTATUS, run_in_pty.py:78-81
ExitCodeOf(st) == IF st >= 0 THEN st ELSE 1

\* mutant: the loop has no limit, a child that has not exited is polled again
RelayWait_NoLimit ==
    /\ program = "relay" /\ ptyPc = "sa_wait"
    /\ IF proc = "zombie"
       THEN /\ proc' = "reaped"
            /\ returncode' = <<ExitCodeOf(childStatus)>>
            /\ ptyPc' = "sa_final"
            /\ UNCHANGED childStatus
       ELSE /\ ptyPc' = "sa_drain"
            /\ UNCHANGED <<proc, childStatus, returncode>>
    /\ UNCHANGED <<inputVars, extra_args, plannerVars, spawned, ptyAllocs, fdVars, pending,
                   childWrites, written, out, masterWritten, ttyIn, elapsed>>

\* run_in_pty.py:76-88
RelayWait ==
    /\ program = "relay" /\ ptyPc = "sa_wait"
    /\ IF proc = "zombie"
       THEN /\ proc' = "reaped"
            /\ returncode' = <<ExitCodeOf(childStatus)>>
            /\ ptyPc' = "sa_final"
            /\ UNCHANGED childStatus
       ELSE IF elapsed > RelayLimitSlices
       THEN /\ returncode' = <<1>>
            /\ proc' = "zombie" /\ childStatus' = -9
            /\ ptyPc' = "sa_final"
       ELSE /\ ptyPc' = "sa_drain"
            /\ UNCHANGED <<proc, childStatus, returncode>>
    /\ UNCHANGED <<inputVars, extra_args, plannerVars, spawned, ptyAllocs, fdVars, pending,
                   childWrites, written, out, masterWritten, ttyIn, elapsed>>

(***************************************************************************)
(* The specification.                                                      *)
(***************************************************************************)
InitSession ==
    /\ master_fd = "none" /\ slave_fd = "none"
    /\ masterCloses = 0 /\ slaveCloses = 0
    /\ proc = "none" /\ childStatus = 0 /\ pending = <<>> /\ childWrites = 0
    /\ written = <<>>
    /\ returncode = <<>> /\ out = <<>> /\ masterWritten = <<>> /\ ttyIn = 0
    /\ elapsed = 0
    /\ error_messages = <<>>
    /\ result = NoResult
    /\ attempts = <<>>
    /\ earlier = <<>>
    /\ extra_args = <<>>
    /\ spawned = 0
    /\ ptyAllocs = 0

\* call_codex_auto(prompt, codex_cmd, timeout=timeout) is called
InitPlanner ==
    /\ program = "planner"
    /\ pc = "NotStarted"
    /\ ptyPc = "idle"
    /\ prompt \in Prompts
    /\ timeout \in {<<>>, <<TimeoutSlices>>}
    /\ _EXTRA_CODEX_ARGS \in ExtraArgLists
    /\ onPath \in BOOLEAN
    /\ stdoutTty \in BOOLEAN
    /\ isWindows \in BOOLEAN
    \* the prompt that holds "Not a TTY" is sent with no extra arguments and
    \* stdout not a terminal
    /\ prompt # <<"hello">> => (_EXTRA_CODEX_ARGS = <<>> /\ ~stdoutTty)

\* run_with_pty(args.cmd, payload) is called
InitRelay ==
    /\ program = "relay"
    /\ pc = "Relay"
    /\ ptyPc = "sa_open"
    /\ prompt \in Prompts \cup {<<>>, <<"hello", NL>>}
    /\ timeout = <<>>
    /\ _EXTRA_CODEX_ARGS = <<>>
    /\ onPath = TRUE
    /\ stdoutTty = FALSE
    /\ isWindows = FALSE

Init == InitSession /\ (InitPlanner \/ InitRelay)

Next ==
    \/ Require
    \/ \E child \in StreamChildren : FastPath(child)
    \/ \E child \in StreamChildren : FastPathBlocked(child)
    \/ \E child \in DirectChildren : Direct(child)
    \/ Reinvoke
    \/ \E fails \in BOOLEAN : PtyOpen(fails)
    \/ \E fails \in BOOLEAN : PtySpawn(fails)
    \/ \E fails \in BOOLEAN : PtyWritePayload(fails)
    \/ PtyDeadline
    \/ PtySelect
    \/ \E n \in 0..MaxPending, fails \in BOOLEAN : PtyRead(n, fails)
    \/ \E fails \in BOOLEAN : PtyReply(fails)
    \/ PtyPoll
    \/ \E n \in 0..MaxPending, fails \in BOOLEAN : PtyDrain(n, fails)
    \/ \E text \in ChildTexts : ChildWrite(text)
    \/ \E st \in ExitStatuses : ChildExit(st)
    \/ TtyDrain
    \/ Tick
    \/ \E fails \in BOOLEAN : RelayOpen(fails)
    \/ \E fails \in BOOLEAN : RelayFork(fails)
    \/ \E fails \in BOOLEAN : RelayWritePayload(fails)
    \/ \E n \in 0..MaxPending, fails \in BOOLEAN : RelayDrain(n, fails)
    \/ RelayWait

Spec == Init /\ [][Next]_vars

\* the same programs where no system call fails: openpty, Popen, fork,
\* os.read and os.write raise nothing (EIO at the end of the stream is no
\* failure)
NextNoFaults ==
    \/ Require
    \/ \E child \in StreamChildren : FastPath(child)
    \/ \E child \in StreamChildren : FastPathBlocked(child)
    \/ \E child \in DirectChildren : Direct(child)
    \/ Reinvoke
    \/ PtyOpen(FALSE)
    \/ PtySpawn(FALSE)
    \/ PtyWritePayload(FALSE)
    \/ PtyDeadline
    \/ PtySelect
    \/ \E n \in 0..MaxPending : PtyRead(n, FALSE)
    \/ PtyReply(FALSE)
    \/ PtyPoll
    \/ \E n \in 0..MaxPending : PtyDrain(n, FALSE)
    \/ \E text \in ChildTexts : ChildWrite(text)
    \/ \E st \in ExitStatuses : ChildExit(st)
    \/ TtyDrain
    \/ Tick
    \/ RelayOpen(FALSE)
    \/ RelayFork(FALSE)
    \/ RelayWritePayload(FALSE)
    \/ \E n \in 0..MaxPending : RelayDrain(n, FALSE)
    \/ RelayWait

SpecNoFaults == Init /\ [][NextNoFaults]_vars

\* the steps of _run_with_pty: the interpreter keeps executing the function
\* once it is called
PtyStep ==
    \/ PtyOpen(FALSE)
    \/ PtySpawn(FALSE)
    \/ PtyWritePayload(FALSE)
    \/ PtyDeadline
    \/ PtySelect
    \/ \E n \in 0..MaxPending : PtyRead(n, FALSE)
    \/ PtyReply(FALSE)
    \/ PtyPoll
    \/ \E n \in 0..MaxPending : PtyDrain(n, FALSE)

\* no system call fails and _run_with_pty keeps running; nothing is assumed
\* of the child (it may write, fall silent, exit or never exit) nor of how
\* fast the clock runs
SpecLive == Init /\ [][NextNoFaults]_vars /\ WF_vars(PtyStep)

\* the steps of run_with_pty: the interpreter keeps executing the function
\* once it is called
RelayStep ==
    \/ RelayOpen(FALSE)
    \/ RelayFork(FALSE)
    \/ RelayWritePayload(FALSE)
    \/ \E n \in 0..MaxPending : RelayDrain(n, FALSE)
    \/ RelayWait

\* no system call fails, run_with_pty keeps running and its clock advances:
\* every turn of the loop at run_in_pty.py:74-88 takes time, so a loop that
\* turns for ever sees time.monotonic() grow.  Nothing is assumed of the child
SpecRelayLive ==
    Init /\ [][NextNoFaults]_vars /\ WF_vars(RelayStep) /\ SF_vars(program = "relay" /\ Tick)

(***************************************************************************)
(* Properties.                                                             *)
(***************************************************************************)
\* the capturing attempts of the invocation, in the order they were started
Cap == SelectSeq(attempts, LAMBDA a : a.channel # "Stream")

\* the place of an attempt in the order ArgDirect, ArgPty, StdinDirect, StdinPty
Rank(a) ==
    (IF a.mode = "Arg" THEN 0 ELSE 2) + (IF a.channel = "Direct" THEN 1 ELSE 2)

\* what the failure log holds for a failed attempt
Logged(a) ==
    IF a.channel = "Pty" THEN <<"PTY fallback failed: ">> \o a.diag ELSE a.diag

Failed(a) == a.status = "failed"

\* C1: the capturing attempts run in the order ArgDirect, ArgPty, StdinDirect,
\* StdinPty; a Pty attempt directly follows the failed Direct attempt of its
\* mode, whose diagnostic _is_tty_error accepts; after any other Direct
\* failure and after any Pty failure the planner is at the next mode's Direct
\* attempt (after Stdin mode: at the aggregate failure).
C1_FixedOrder ==
    program = "planner" =>
        LET cap == Cap
            n == Len(cap)
        IN  /\ \A i \in 1..n :
                /\ i = 1 => Rank(cap[i]) = 1
                /\ i > 1 => Rank(cap[i]) > Rank(cap[i - 1]) /\ Failed(cap[i - 1])
                /\ cap[i].channel = "Pty" =>
                    /\ i > 1
                    /\ Rank(cap[i - 1]) = Rank(cap[i]) - 1
                    /\ _is_tty_error(cap[i - 1].diag)
            /\ n > 0 =>
                LET last == cap[n]
                IN  /\ last.status = "running" =>
                        pc = (IF last.mode = "Arg" THEN "ArgPty" ELSE "StdinPty")
                    /\ (Failed(last) /\ (last.channel = "Pty" \/ ~_is_tty_error(last.diag))) =>
                        pc = (IF last.mode = "Arg" THEN "StdinDirect" ELSE "ExhaustedFailed")

\* all four capturing attempts ran, and failed
C1_Witness == pc = "ExhaustedFailed" /\ Len(Cap) = 4

HasSuccess == \E i \in 1..Len(attempts) : attempts[i].status = "ok"

\* C2: once an attempt has succeeded the planner has stopped: that attempt is
\* the last one, its result is what the invocation returned, and no attempt
\* is started, no child spawned and no pseudo-terminal allocated afterwards
\* (until the caller invokes the planner again).
C2_StopsOnFirstSuccess ==
    /\ [](HasSuccess =>
            LET last == attempts[Len(attempts)]
            IN  /\ pc = "Succeeded"
                /\ last.status = "ok"
                /\ \A i \in 1..(Len(attempts) - 1) : Failed(attempts[i])
                /\ result = (IF last.channel = "Stream"
                             THEN [kind |-> "None", text |-> <<>>]
                             ELSE [kind |-> "text", text |-> Decode(last.out)]))
    /\ [][(HasSuccess /\ earlier' = earlier) =>
             UNCHANGED <<pc, result, attempts, spawned, ptyAllocs>>]_vars

\* the first capturing attempt succeeded: three combinations are never tried
C2_Witness ==
    /\ pc = "Succeeded" /\ spawned = 1
    /\ Len(Cap) = 1 /\ Cap[1].status = "ok"

\* the child's "stdout is not a terminal" complaint, as it prints it
TerminalRequired(diag) ==
    Contains(diag, <<"Stdout", SP, "is", SP, "not", SP, "a", SP, "terminal">>)

\* C3: where a PTY is available, if every Direct attempt so far failed with
\* the terminal-required diagnostic and no Pty attempt failed, then the
\* capturing attempts are ArgDirect (failed) and then ArgPty, no Stdin attempt
\* is ever started, and the planner ends in Succeeded with the ArgPty success.
C3_DirectFailPtySucceed ==
    LET cap == Cap
        n == Len(cap)
    IN  (/\ program = "planner" /\ ~isWindows /\ n > 0
         /\ \A i \in 1..n :
                /\ cap[i].channel = "Direct" => Failed(cap[i]) /\ TerminalRequired(cap[i].diag)
                /\ cap[i].channel = "Pty" => ~Failed(cap[i]))
        =>
        /\ n <= 2
        /\ \A i \in 1..n : Rank(cap[i]) = i
        /\ pc \notin {"StdinDirect", "StdinPty", "ExhaustedFailed", "Propagated"}
        /\ (n = 2 /\ cap[2].status = "ok") => pc = "Succeeded"
        /\ pc = "Succeeded" => n = 2

\* ArgDirect failed with the diagnostic, ArgPty succeeded
C3_Witness ==
    /\ pc = "Succeeded" /\ Len(Cap) = 2
    /\ Failed(Cap[1]) /\ TerminalRequired(Cap[1].diag)
    /\ Cap[2].channel = "Pty" /\ Cap[2].status = "ok"

\* C4: when every attempt failed, the invocation raises the aggregate error,
\* whose text is the header and then one entry per attempt, in the order the
\* attempts ran, each entry holding that attempt's diagnostic.
C4_AggregateInOrder ==
    pc = "ExhaustedFailed" =>
        /\ \A i \in 1..Len(attempts) : Failed(attempts[i])
        /\ result.kind = "raise"
        /\ result.text = <<"Codex invocation failed:", NL>>
               \o Join([i \in 1..Len(attempts) |-> Logged(attempts[i])], <<NL, "---", NL>>)

\* the two streaming and the four capturing attempts all failed
C4_Witness == pc = "ExhaustedFailed" /\ Len(attempts) = 6

\* payload "hello", a timeout, a non-interactive caller, and the child wrote
\* "hello\n" and exited 0 in the Stdin-Direct attempt
C5_Scenario ==
    /\ program = "planner" /\ pc = "Succeeded"
    /\ prompt = <<"hello">> /\ timeout # <<>> /\ ~stdoutTty
    /\ LET last == attempts[Len(attempts)]
       IN  /\ last.mode = "Stdin" /\ last.channel = "Direct" /\ last.status = "ok"
           /\ last.out = <<"hello", NL>>

\* C5, as claimed: in that scenario the planner returns "hello\n" after
\* exactly one attempt.
C5_OneAttempt ==
    C5_Scenario => result.text = <<"hello", NL>> /\ Len(attempts) = 1

\* C5, amended: in that scenario the planner returns "hello\n", and the
\* Stdin-Direct attempt is the last of two or three attempts: the Arg-Direct
\* attempt failed before it, and so did the Arg-Pty attempt, which ran exactly
\* when that failure was terminal-related and the platform has PTYs.
C5_AfterArgFailed ==
    C5_Scenario =>
        /\ result.text = <<"hello", NL>>
        /\ Len(attempts) \in {2, 3}
        /\ Rank(attempts[1]) = 1 /\ Failed(attempts[1])
        /\ Len(attempts) = 3 <=> (_is_tty_error(attempts[1].diag) /\ ~isWindows)
        /\ Len(attempts) = 3 => Rank(attempts[2]) = 2 /\ Failed(attempts[2])

C5_Witness == C5_Scenario /\ Len(attempts) = 3

\* C6: when the command is not on the PATH the invocation fails at once with
\* the command-not-found error, which is not the aggregate failure: no
\* attempt is made, no child spawned, no pseudo-terminal allocated.
C6_NotFoundFailsFast ==
    (program = "planner" /\ ~onPath) =>
        /\ pc \in {"NotStarted", "CommandNotFound"}
        /\ attempts = <<>> /\ spawned = 0 /\ ptyAllocs = 0 /\ ptyPc = "idle"
        /\ pc = "CommandNotFound" =>
            /\ result = [kind |-> "raise",
                         text |-> <<"Command not found on PATH: ">> \o codex_cmd]
            /\ error_messages = <<>>

C6_Witness == pc = "CommandNotFound" /\ result.kind = "raise"

C8_NoPtyOnWindows ==
    (program = "planner" /\ isWindows) =>
        /\ ptyAllocs = 0 /\ ptyPc = "idle"
        /\ pc \notin {"ArgPty", "StdinPty"}
        /\ \A i \in 1..Len(attempts) : attempts[i].channel # "Pty"
        /\ \A i \in 1..Len(error_messages) :
               error_messages[i][1] # "PTY fallback failed: "
        /\ \A i \in 1..Len(Cap) : Rank(Cap[i]) = 2 * i - 1
        /\ (Len(Cap) = 1 /\ Failed(Cap[1])) => pc = "StdinDirect"

\* on Windows both Direct attempts failed with a terminal-related diagnostic
C8_Witness ==
    /\ isWindows /\ pc = "ExhaustedFailed" /\ Len(Cap) = 2
    /\ _is_tty_error(Cap[1].diag) /\ _is_tty_error(Cap[2].diag)

\* a PTY session that allocated its descriptors is over
SessionOver == ptyPc = "idle" /\ master_fd # "none"

\* C9: when a PTY session is over, the parent's master and slave descriptors
\* have each been closed exactly once.
C9_ClosedExactlyOnce ==
    SessionOver =>
        /\ master_fd = "closed" /\ masterCloses = 1
        /\ slave_fd = "closed" /\ slaveCloses = 1

\* C10: when a PTY session that spawned a child is over, the child has been
\* reaped.
C10_ChildReaped ==
    (SessionOver /\ proc # "none") => proc = "reaped"

\* the last attempt is a Pty attempt that failed with the Timeout diagnostic
PtyTimedOut(log) ==
    /\ Len(log) > 0
    /\ LET last == log[Len(log)]
       IN  /\ last.channel = "Pty" /\ last.status = "failed"
           /\ last.diag = <<"Timeout running (PTY): ">> \o Join(last.argv, <<SP>>)

\* C11: with a timeout configured, a child of _run_with_pty that never exits
\* by itself is eventually gone, whatever it writes: the call is over, the
\* child reaped, both descriptors closed; and the step that ends a running
\* child happens at the expired deadline, reaps it, closes the master and
\* fails the attempt with the Timeout diagnostic.
C11_DeadlineKills ==
    /\ [](proc # "zombie") =>
           ((program = "planner" /\ timeout # <<>> /\ proc = "running")
               ~> (ptyPc = "idle" /\ proc = "reaped"
                   /\ master_fd = "closed" /\ slave_fd = "closed"))
    /\ [][(program = "planner" /\ proc = "running" /\ proc' # "running") =>
             \/ proc' = "zombie" /\ ptyPc' = ptyPc
             \/ /\ timeout # <<>> /\ elapsed >= timeout[1]
                /\ proc' = "reaped" /\ ptyPc' = "idle"
                /\ master_fd' = "closed" /\ masterCloses' = 1
                /\ slave_fd' = "closed"
                /\ PtyTimedOut(attempts')]_vars

\* C12: the bytes a PTY session returns to its caller never contain the
\* cursor-position query ESC[6n, however the child's bytes were split into
\* read chunks.
C12_NoQueryReturned ==
    /\ \A i \in 1..Len(attempts) :
           attempts[i].channel = "Pty" => ~Contains(attempts[i].out, CursorQuery)
    /\ pc = "RelayExited" => ~Contains(result.text, CursorQuery)

\* C13: whenever call_codex_auto starts an attempt (a streaming or capturing
\* Direct attempt, each of which spawns its child at once), the child of the
\* PTY session before it is no longer running and that session's master and
\* slave descriptors are closed; and a PTY session exists only inside the Pty
\* attempt that the planner is at.  (A child that has exited but was never
\* waited for is let pass here: subprocess.Popen reaps the exited children of
\* abandoned Popen objects before it forks.)
C13_SequentialDisjoint ==
    /\ [](program = "planner" =>
            /\ ptyPc # "idle" => pc \in {"ArgPty", "StdinPty"}
            /\ pc \notin {"ArgPty", "StdinPty"} => ptyPc = "idle")
    /\ [][(program = "planner" /\ Len(attempts') > Len(attempts)) =>
             /\ proc # "running"
             /\ master_fd # "open" /\ slave_fd # "open"]_vars

\* the Direct attempts of the invocation: each is one call of _run
Runs == SelectSeq(attempts, LAMBDA a : a.channel = "Direct")

\* C14: a call of _run succeeds exactly when its child exited with code zero,
\* and then returns the child's standard output, byte for byte; a child that
\* ended otherwise makes it raise "Nonzero exit <code>: <command>" followed by
\* the error text, a child that outlived the timeout makes it raise "Timeout
\* running: <command>"; on both failing paths nothing of the output is
\* returned, and on every path the child has been waited for.
C14_RunContract ==
    LET runs == Runs
    IN  \A i \in 1..Len(runs) :
            LET a == runs[i]
                c == a.child
                cmd == Join(a.argv, <<SP>>)
            IN  /\ a.status = "ok" <=> (~c.hangs /\ c.rc = 0)
                /\ a.status = "ok" => a.out = c.out /\ a.diag = <<>>
                /\ a.status = "failed" => a.out = <<>>
                /\ (~c.hangs /\ c.rc # 0) =>
                       a.diag = <<"Nonzero exit ", ToStr(c.rc), ": ">> \o cmd \o <<NL>>
                                \o Decode(c.err)
                /\ c.hangs =>
                       /\ timeout # <<>>
                       /\ SubSeq(a.diag, 1, 1 + Len(cmd)) = <<"Timeout running: ">> \o cmd
                /\ a.waited

\* _run was called twice: the first child outlived the timeout and was
\* killed, the second wrote bytes that are no UTF-8 and exited 0
C14_Witness ==
    /\ Len(Runs) = 2
    /\ Runs[1].child.hangs /\ Failed(Runs[1])
    /\ Runs[2].status = "ok" /\ Runs[2].out = <<"\\xff", "ok">>

\* the step on which _run_with_pty is left after its relay loop ended by a
\* break (and not by an OSError of os.read)
RelayLoopLeft ==
    /\ program = "planner" /\ ptyPc \in {"read", "drain"} /\ ptyPc' = "idle"
    /\ attempts'[Len(attempts')].diag # <<"read failed">>

PtyAttempts(log) == { i \in 1..Len(log) : log[i].channel = "Pty" }

\* the first attempt that captures output, Arg mode Direct, succeeded
ArgDirectOk(log) ==
    \E i \in 1..Len(log) :
        log[i].mode = "Arg" /\ log[i].channel = "Direct" /\ log[i].status = "ok"

C17_RelayExit ==
    (program = "relay" /\ pc = "RelayExited") =>
        /\ result = [kind |-> "exit", text |-> out]
        /\ Len(returncode) = 1
        /\ childStatus >= 0 => returncode[1] = childStatus
        /\ childStatus < 0 => returncode[1] = 1

\* a child that wrote something and exited with 2 by itself
C17_Witness ==
    /\ program = "relay" /\ pc = "RelayExited"
    /\ childStatus = 2 /\ returncode = <<2>>
    /\ result.text # <<>>

\* an attempt of the planner has been started and has not ended
Running ==
    /\ program = "planner" /\ attempts # <<>>
    /\ attempts[Len(attempts)].status = "running"

\* C18: with a timeout configured, every attempt of the planner (streaming,
\* Direct or Pty) comes to an end, whatever its child does; and an attempt
\* whose child never exits by itself ends as a failure with the child
\* terminated and waited for.  Stated for the behaviours in which no write
\* of a cursor report to the pseudo-terminal has to wait (those are C11's).
C18_OwnDeadline ==
    [](InReply => WriteRoom) =>
        /\ (timeout # <<>> /\ Running) ~> ~Running
        /\ [](timeout # <<>> =>
                \A i \in 1..Len(attempts) :
                    (attempts[i].child.hangs /\ attempts[i].status # "running") =>
                        attempts[i].status = "failed" /\ attempts[i].waited)

\* the attempts of a log that streamed to the parent's terminal
StreamAttempts(log) == { i \in 1..Len(log) : log[i].channel = "Stream" }

\* what a failed streaming attempt leaves in the failure log
StreamDiag(a) ==
    <<(IF a.mode = "Arg" THEN "Arg mode exit " ELSE "Stdin mode exit "),
      ToStr(a.child.rc), ": ">>
    \o Join(a.argv, <<SP>>) \o <<NL>> \o Strip(a.child.err)

\* C19: the result is None exactly when stdout is a terminal and a streaming
\* attempt exited with 0; streaming attempts are made only with stdout a
\* terminal, Arg first and then Stdin, before anything else; when both have
\* failed their diagnostics head the failure log and the planner is at the
\* Arg-mode Direct attempt; and a success of a capturing attempt returns the
\* captured text.
C19_NoneIffStreamed ==
    program = "planner" =>
        LET n == Len(attempts)
            streamed == StreamAttempts(attempts)
        IN  /\ result.kind = "None" <=>
                   /\ stdoutTty
                   /\ \E i \in streamed :
                          attempts[i].status = "ok" /\ attempts[i].child.rc = 0
            /\ ~stdoutTty => streamed = {}
            /\ \A i \in streamed :
                   /\ i <= 2
                   /\ attempts[i].mode = (IF i = 1 THEN "Arg" ELSE "Stdin")
                   /\ attempts[i].status = "ok" => (pc = "Succeeded" /\ i = n)
            /\ (stdoutTty /\ n >= 1 /\ attempts[n].channel # "Stream") =>
                   /\ n >= 3 /\ streamed = {1, 2}
                   /\ Failed(attempts[1]) /\ Failed(attempts[2])
                   /\ Len(error_messages) >= 2
                   /\ error_messages[1] = StreamDiag(attempts[1])
                   /\ error_messages[2] = StreamDiag(attempts[2])
            /\ (stdoutTty /\ n = 2 /\ Failed(attempts[1]) /\ Failed(attempts[2])) =>
                   pc = "ArgDirect"
            /\ (pc = "Succeeded" /\ attempts[n].channel # "Stream") =>
                   result = [kind |-> "text", text |-> Decode(attempts[n].out)]

\* both streaming attempts failed and the Stdin-mode Direct attempt returned
\* text
C19_Witness ==
    /\ program = "planner" /\ stdoutTty /\ pc = "Succeeded"
    /\ Len(attempts) >= 4
    /\ attempts[Len(attempts)].channel = "Direct" /\ attempts[Len(attempts)].mode = "Stdin"
    /\ result = [kind |-> "text", text |-> <<"hello", NL>>]
    /\ error_messages[1] = <<"Arg mode exit ", "1", ": ">>
                               \o Join(attempts[1].argv, <<SP>>) \o <<NL, "boom">>

\* C20: in one invocation every attempt's argument vector is the command,
\* then the configured extra arguments in their order, then (Arg mode only)
\* the prompt; the Pty attempt of a mode has the argument vector of that
\* mode's Direct attempt, which precedes it; and no step changes the
\* configured list.
C20_ExtraArgsEverywhere ==
    /\ [](program = "planner" =>
            \A i \in 1..Len(attempts) :
                LET a == attempts[i]
                IN  /\ a.argv = <<codex_cmd>> \o _EXTRA_CODEX_ARGS
                                    \o (IF a.mode = "Arg" THEN <<prompt>> ELSE <<>>)
                    /\ a.channel = "Pty" =>
                           /\ i > 1
                           /\ attempts[i - 1].channel = "Direct"
                           /\ attempts[i - 1].mode = a.mode
                           /\ attempts[i - 1].argv = a.argv)
    /\ [][_EXTRA_CODEX_ARGS' = _EXTRA_CODEX_ARGS]_vars
    /\ [][(program = "planner" /\ pc # "NotStarted" /\ pc' # "NotStarted") =>
             extra_args' = extra_args]_vars

\* with two extra arguments: both streaming attempts, both Direct attempts and
\* a Pty attempt were made
C20_Witness ==
    /\ program = "planner" /\ _EXTRA_CODEX_ARGS = << <<"--json">>, <<"-q">> >>
    /\ Len(attempts) >= 5
    /\ StreamAttempts(attempts) = {1, 2}
    /\ PtyAttempts(attempts) # {}
    /\ attempts[Len(attempts)].mode = "Stdin"
    /\ attempts[Len(attempts)].argv = <<codex_cmd, <<"--json">>, <<"-q">> >>

\* a PTY session of either implementation comes to its end in this step
SessionEnds == ptyPc # "idle" /\ ptyPc' = "idle"

\* the session that ends in this step has killed its child: _run_with_pty
\* leaves from the head of its loop only at codex_voice.py:109-111, and
\* run_with_pty has recorded the kill of run_in_pty.py:86
KilledItsChild ==
    \/ program = "planner" /\ ptyPc = "loop"
    \/ program = "relay" /\ childStatus = -9

\* C21: the inline bridge and the standalone relay treat the same child in
\* the same way: a session of either one that killed its child has reaped it
\* when it ends, a session that ends after the child exited by itself counts
\* exit status 0 as success and every other status as failure, what it
\* captured is the buffer it accumulated, and the "hi" a child wrote is in it.
C21_SameRelay ==
    /\ [][(SessionEnds /\ KilledItsChild) => proc' = "reaped"]_vars
    /\ [][(SessionEnds /\ program = "planner" /\ ptyPc \in {"read", "drain"}
           /\ attempts'[Len(attempts')].diag # <<"read failed">>) =>
             /\ attempts'[Len(attempts')].status = "ok" <=> childStatus = 0
             /\ childStatus = 0 => attempts'[Len(attempts')].out = out]_vars
    /\ [][(SessionEnds /\ program = "relay" /\ pc' = "RelayExited"
           /\ childStatus # -9) =>
             /\ returncode[1] = 0 <=> childStatus = 0
             /\ result'.text = out]_vars
    /\ [][(/\ SessionEnds
           /\ \/ program = "planner" /\ ptyPc \in {"read", "drain"}
                 /\ attempts'[Len(attempts')].diag # <<"read failed">>
              \/ program = "relay" /\ pc' = "RelayExited"
           /\ Contains(written, <<"hi">>)) =>
             Contains(out, <<"hi">>)]_vars

\* how often needle occurs in t, counted left to right without overlap
RECURSIVE Count(_, _)
Count(t, needle) ==
    IF Len(t) < Len(needle) THEN 0
    ELSE IF SubSeq(t, 1, Len(needle)) = needle
    THEN 1 + Count(SubSeq(t, Len(needle) + 1, Len(t)), needle)
    ELSE Count(Tail(t), needle)

\* the reports written to the master side so far
Reports == Cardinality({ i \in 1..Len(masterWritten) : masterWritten[i] = cursor_report })

\* the relay has nothing left to read and is not about to write a report
AllRead ==
    \/ program = "planner" /\ pending = <<>>
         /\ ptyPc \in {"loop", "select", "read", "poll", "drain"}
    \/ program = "relay" /\ pc = "RelayExited"

\* C22: once the relay has read all there is to read, it has written one
\* cursor report for every cursor query the child wrote, however the queries
\* fell into the chunks it read.
C22_OneReportPerQuery == AllRead => Reports = Count(written, CursorQuery)

\* the symbols of s are in t, in the order of s
RECURSIVE IsSubsequence(_, _)
IsSubsequence(s, t) ==
    IF s = <<>> THEN TRUE
    ELSE IF t = <<>> THEN FALSE
    ELSE IF s[1] = t[1] THEN IsSubsequence(Tail(s), Tail(t))
    ELSE IsSubsequence(s, Tail(t))

\* the session ends after its relay read up to the end of the stream of a
\* child that had exited on its own
EndsAtEndOfStream ==
    /\ SessionEnds
    /\ \/ program = "planner" /\ ptyPc \in {"read", "drain"}
          /\ attempts'[Len(attempts')].diag # <<"read failed">>
       \/ program = "relay" /\ pc' = "RelayExited" /\ childStatus # -9

C24_ChildOnSlave ==
    [][Len(written') > Len(written) =>
        (OnSlave /\ pending' = pending \o ONLCR(SubSeq(written', Len(written) + 1,
                                                       Len(written'))))]_vars

\* the payload a session was given: input_bytes of _run_with_pty, what main
\* read from its standard input in the standalone relay
SessionInput == IF program = "planner" THEN InputOf(ModeOf(pc)) ELSE prompt

\* the session has not come to the write of its payload yet
BeforePayload == ptyPc \in {"start", "spawn", "write", "sa_open", "sa_fork", "sa_write"}

\* C25: nothing is written to the master side before the payload; a payload is
\* the first and only thing written besides cursor reports, it is written as
\* given when it ends with a newline and with one newline appended when it
\* does not; without a payload only cursor reports are written.
C25_PayloadOnce ==
    /\ BeforePayload => masterWritten = <<>>
    /\ (ptyPc # "idle" /\ ~BeforePayload) =>
        /\ SessionInput # <<>> =>
            /\ Len(masterWritten) >= 1
            /\ EndsWith(masterWritten[1], NL)
            /\ masterWritten[1] = (IF SessionInput[Len(SessionInput)] = NL
                                   THEN SessionInput ELSE SessionInput \o <<NL>>)
        /\ \A i \in 1..Len(masterWritten) :
              (i > 1 \/ SessionInput = <<>>) => masterWritten[i] = cursor_report

\* a payload was written with a newline appended, and a cursor report after it
C25_Witness ==
    /\ program = "planner" /\ ptyPc = "poll"
    /\ masterWritten = <<prompt \o <<NL>>, cursor_report>>

\* C26: the read that finds nothing more to read because the slave side is
\* closed ends the session as its child ended it: with exit status 0 the
\* session succeeds and returns the buffer as it was.  The read that fails
\* otherwise ends the session with that failure.
C26_EioIsEndOfStream ==
    /\ [][(SessionEnds /\ program = "planner" /\ ptyPc \in {"read", "drain"}) =>
            LET a == attempts'[Len(attempts')]
            IN  IF a.diag = <<"read failed">>
                THEN a.status = "failed" /\ a.out = <<>>
                ELSE /\ pending = <<>> /\ proc # "running"
                     /\ childStatus = 0 => (a.status = "ok" /\ a.out = out)]_vars
    /\ [][(SessionEnds /\ program = "relay" /\ ptyPc \in {"sa_drain", "sa_final"}) =>
            IF pc' = "RelayFailed"
            THEN result' = [kind |-> "raise", text |-> <<"read failed">>]
            ELSE /\ pending = <<>>
                 /\ result' = [kind |-> "exit", text |-> out]
                 /\ childStatus = 0 => returncode = <<0>>]_vars
    /\ [][(ptyPc = "sa_drain" /\ ptyPc' = "sa_wait") =>
            (pending = <<>> /\ out' = out)]_vars

\* a session whose child wrote "hi" and exited with 0 ended at such a read
C26_Witness ==
    /\ pc = "Succeeded" /\ ptyPc = "idle"
    /\ attempts[Len(attempts)].channel = "Pty"
    /\ attempts[Len(attempts)].status = "ok"
    /\ attempts[Len(attempts)].out = <<"hi">>

\* C27: run_with_pty, once called, returns whatever its child does; until then
\* it comes to its poll of the child again and again; and when it killed the
\* child, it did so past its limit and returns 1.
C27_RelayTerminates ==
    /\ (program = "relay" /\ ptyPc # "idle") ~> (ptyPc = "idle" /\ pc = "RelayExited")
    /\ (program = "relay" /\ ptyPc = "sa_drain") ~> (ptyPc \in {"sa_wait", "idle"})
    /\ [](program = "relay" /\ childStatus = -9 =>
            (elapsed > RelayLimitSlices /\ returncode = <<1>>))

\* the relay returned 1 after it killed a child that had written and not exited
C27_Witness ==
    /\ pc = "RelayExited" /\ ptyPc = "idle" /\ childStatus = -9
    /\ returncode = <<1>> /\ written # <<>>

\* C28: a Pty attempt is started only after a Direct attempt whose child
\* reported that it needs a terminal on its error channel; the prompt has no
\* part in it.
C28_EscalationFromReport ==
    \A i \in 1..Len(attempts) :
        attempts[i].channel = "Pty" =>
            /\ i > 1
            /\ attempts[i - 1].channel = "Direct" /\ attempts[i - 1].mode = attempts[i].mode
            /\ _is_tty_error(attempts[i - 1].child.err)

\* C29: an invocation spawns at most four children when stdout is not a
\* terminal and at most six when it is, one per attempt; no two of its
\* attempts have the same mode and channel, and no Direct attempt follows the
\* Pty attempt of its mode.
C29_AtMostOnce ==
    program = "planner" =>
        /\ spawned <= (IF stdoutTty THEN 6 ELSE 4)
        /\ spawned <= Len(attempts)
        /\ \A i, j \in 1..Len(attempts) :
              i < j =>
                /\ <<attempts[i].mode, attempts[i].channel>>
                       # <<attempts[j].mode, attempts[j].channel>>
                /\ (attempts[i].channel = "Pty" /\ attempts[j].channel = "Direct")
                       => attempts[i].mode # attempts[j].mode

\* the two streaming attempts and the four capturing ones each spawned a child
C29_Witness ==
    /\ program = "planner" /\ stdoutTty /\ spawned = 6
    /\ Len(attempts) = 6 /\ Len(Cap) = 4

====
